---- MODULE Spec2Model ----
(***************************************************************************)
(* The scraper service of app.py and jewelry_scraper.py: the Flask         *)
(* handlers start_scraper, get_status and get_history, the background      *)
(* thread scraper_thread, the shared scraper_status / job_history /        *)
(* status_lock, and JewelryScraper.get_page / scrape_category /            *)
(* parse_product_page / generate_feeds.                                    *)
(*                                                                         *)
(* URLs are small naturals.  Wall-clock values are abstracted: start_time  *)
(* is "set" once written, time_elapsed is "elapsed" once written, and all  *)
(* jobs start within one clock hour, so a job id is the ordinal that       *)
(* len(job_history) + 1 gives it.                                          *)
(***************************************************************************)
EXTENDS Integers, Sequences, FiniteSets, TLC

\* ------------------------------------------------------------------ bounds
MaxJobs == 2
MaxCategories == 2
MaxLinks == 2
MaxAttempts == 3
MaxListLen == 4
MaxTotal == 7

\* ------------------------------------------------------- program constants
DefaultRetries == 3
CategoryShare == 30
ProductBase == 30
ProductShare == 60
FeedProgress == 90
DoneProgress == 100
SlowEvery == 10
AvailableQuantity == 10

None == "None"

Workers == 1..MaxJobs
Categories == 1..MaxCategories
\* Listing pages: page c is BASE_URL + category c; one more page exists that
\* only pagination links lead to.
ListingPages == 1..(MaxCategories + 1)
Links == 1..MaxLinks

\* ----------------------------------------------------------- pure helpers

\* dict.update: the fields of d replace those of s, the others are kept.
DictUpdate(s, d) ==
    [f \in DOMAIN s |-> IF f \in DOMAIN d THEN d[f] ELSE s[f]]

\* The module-level scraper_status literal.
InitialStatus ==
    [status |-> "Idle", progress |-> 0, pages_crawled |-> 0, total_pages |-> 0,
     products_processed |-> 0, total_products |-> 0, available_products |-> 0,
     unavailable_products |-> 0, time_elapsed |-> "0:00:00",
     feed_status |-> "Pending", start_time |-> None, job_id |-> None]

\* One requests.get + raise_for_status: a 2xx body, a non-2xx status, or a
\* transport error.
Outcomes == {"ok", "http_error", "conn_error"}

RECURSIVE GetPageFrom(_, _, _)
\* The for loop of get_page from iteration `attempt` on; outcomes[attempt + 1]
\* is what the request of that iteration meets.
GetPageFrom(outcomes, retries, attempt) ==
    IF attempt >= retries
    THEN [body |-> None, sent |-> attempt]        \* range(retries) exhausted
    ELSE IF outcomes[attempt + 1] = "ok"
         THEN [body |-> "html", sent |-> attempt + 1]
         ELSE IF attempt < retries - 1
              THEN GetPageFrom(outcomes, retries, attempt + 1)
              ELSE [body |-> None, sent |-> attempt + 1]

\* get_page with range(retries - 1) for range(retries).
GetPageOneFewer(outcomes, retries) == GetPageFrom(outcomes, retries - 1, 0)

GetPage(outcomes, retries) == GetPageFrom(outcomes, retries, 0)

\* What DefaultRetries consecutive requests can meet.
OutcomeSeqs == [1..DefaultRetries -> Outcomes]

\* self.get_page(current_url) in scrape_category and scraper.get_page(link) in
\* scraper_thread: no retries argument is passed, whatever the job's config.
JobGetPage(config, outcomes) == GetPage(outcomes, DefaultRetries)

\* The bodies such a call can return.
Bodies(config) == {JobGetPage(config, outcomes).body : outcomes \in OutcomeSeqs}

\* full_url of scrape_category: BASE_URL + category_url.
FullUrl(category_url) == category_url

\* start_scraper testing for the literal "Running" only.
IsNotRunning(status) == status # "Running"

\* The test start_scraper makes on scraper_status["status"].
IsIdle(status) == status = "Idle"

\* int((processed_categories / total_categories) * 30)
CategoryProgress(processed_categories, total_categories) ==
    (processed_categories * CategoryShare) \div total_categories

\* The product progress without its base and counted from i.
ProductProgressFromZero(i, n) == (i * ProductShare) \div n

\* int(30 + ((i + 1) / len(unique_links) * 60))
ProductProgress(i, n) == ProductBase + (((i + 1) * ProductShare) \div n)

\* The keywords parse_product_page looks for in the lower-cased stock text.
Keywords == {"out of stock", "production", "manufacturing", "discontinued", "removed"}

\* A stock text is modelled by the keyword occurrences it contains, each as
\* it is spelled on the page; NoElem stands for a page without a stock
\* element.
Spellings ==
    Keywords \cup {"Out of Stock", "PRODUCTION", "Manufacturing", "Discontinued", "REMOVED"}
NoElem == {"no stock element"}

\* str.lower() on one occurrence.
LowerCase(spelling) ==
    CASE spelling = "Out of Stock" -> "out of stock"
      [] spelling = "PRODUCTION" -> "production"
      [] spelling = "Manufacturing" -> "manufacturing"
      [] spelling = "Discontinued" -> "discontinued"
      [] spelling = "REMOVED" -> "removed"
      [] OTHER -> spelling

\* The chain of tests made on the text as it is spelled on the page.
StockStatusCaseSensitive(stock) ==
    IF stock = NoElem THEN "Available"
    ELSE IF "out of stock" \in stock THEN "Out of Stock"
    ELSE IF "production" \in stock \/ "manufacturing" \in stock THEN "In Production"
    ELSE IF "discontinued" \in stock \/ "removed" \in stock THEN "Removed"
    ELSE "Available"

\* stock_status of parse_product_page: "Available" unless the stock element
\* exists and its lower-cased text contains a keyword.
StockStatus(stock) ==
    IF stock = NoElem THEN "Available"
    ELSE LET status_text == {LowerCase(m) : m \in stock}
         IN  IF "out of stock" \in status_text THEN "Out of Stock"
             ELSE IF "production" \in status_text \/ "manufacturing" \in status_text
                  THEN "In Production"
             ELSE IF "discontinued" \in status_text \/ "removed" \in status_text
                  THEN "Removed"
             ELSE "Available"

\* The stock texts the site serves during a job in this model, and all of them.
StockTexts == {NoElem, {}, {"Out of Stock"}, {"production"}, {"REMOVED"}}
AllStockTexts == {NoElem} \cup SUBSET Spellings

\* What select_one gives for the title and for the SKU: None, or an element
\* whose stripped text is empty or not.
Elems == {None, "", "text"}
ProductPages == [title : Elems, sku : Elems, stock : AllStockTexts]

\* What parse_product_page returns for None.
NoProduct == [url |-> 0, title |-> None, sku |-> None, stock_status |-> None]

\* all([title_elem, sku_elem]): an element is true whatever its content,
\* None is false.
HasTitleAndSku(page) == page.title # None /\ page.sku # None

\* parse_product_page: None without title or SKU element, else the product.
\* price, description, materials, dimensions, weight, images and
\* last_updated are left out.
ParseProductPage(page, product_url) ==
    IF ~HasTitleAndSku(page) THEN NoProduct
    ELSE [url |-> product_url, title |-> page.title, sku |-> page.sku,
          stock_status |-> StockStatus(page.stock)]

\* The routing test made on "Out of Stock" alone.
IsOutOfStock(product) == product.stock_status = "Out of Stock"

\* The routing test of scraper_thread.
IsUnavailable(product) ==
    product.stock_status \in {"Out of Stock", "In Production", "Removed"}

\* The quantity of a feed row that is in stock whatever the stock status.
QuantityInStock(product) == AvailableQuantity

\* 'quantity' of map_to_amazon_feed; the feed holds it as a decimal string.
Quantity(product) ==
    IF product.stock_status # "Available" THEN 0 ELSE AvailableQuantity

\* map_to_amazon_feed: one row per product, in list order.  The columns
\* other than sku, title and quantity are left out.
MapToAmazonFeed(products) ==
    [k \in DOMAIN products |->
        [sku |-> products[k].sku, title |-> products[k].title,
         quantity |-> Quantity(products[k])]]

\* The feed files before generate_feeds has written any.
NoFeeds == [available |-> <<>>, unavailable |-> <<>>]

\* The orders list(set(...)) can give a set of links.
Orders(S) ==
    {q \in [1..Cardinality(S) -> S] : \A a, b \in 1..Cardinality(S) : a # b => q[a] # q[b]}

\* The configurations load_config can return: whatever handle_config last
\* saved, with at most n categories.  max_retries is stored in the file and
\* never read by the worker; the saved value here differs from the default
\* of get_page.
CategoryLists(n) == {[k \in 1..m |-> k] : m \in 0..n}
Configs(n) == [categories : CategoryLists(n), max_retries : {2}]

\* The surroundings of one run of the service: how its client sends start
\* requests and how many it gets accepted, what configuration can have been
\* saved, what the remote site serves, whether faults of the surroundings
\* (a malformed configuration, a malformed listing page, an unwritable feed
\* file, an unprintable message) occur.
\*   - start requests sent at any moment, one of them accepted, the full
\*     site, with faults;
\*   - start requests sent at any moment, MaxJobs of them accepted, a
\*     configuration without categories, with faults;
\*   - a client that sends a start request only when no job is in flight,
\*     MaxJobs jobs, a site of one category and one product, no faults;
\*   - one job on a site of one category and one product, whose title and
\*     SKU elements can be empty, no faults.
Worlds ==
    { [client |-> "racing", jobs |-> 1, categories |-> MaxCategories,
       links |-> Links, stocks |-> StockTexts, elems |-> {None, "text"},
       faults |-> TRUE],
      [client |-> "racing", jobs |-> MaxJobs, categories |-> 0,
       links |-> {}, stocks |-> {NoElem}, elems |-> {None, "text"},
       faults |-> TRUE],
      [client |-> "sequential", jobs |-> MaxJobs, categories |-> 1,
       links |-> {1}, stocks |-> StockTexts, elems |-> {None, "text"},
       faults |-> FALSE],
      [client |-> "sequential", jobs |-> 1, categories |-> 1,
       links |-> {1}, stocks |-> {NoElem, {"Out of Stock"}}, elems |-> Elems,
       faults |-> FALSE] }

\* ------------------------------------------------------------------ state
VARIABLES
    scraper_status,  \* the shared status dict
    job_history,     \* the shared history list
    status_lock,     \* 0 when free, else the thread holding it
    pc,              \* where each scraper_thread stands
    local,           \* the locals of each scraper_thread and its scraper
    response,        \* the last HTTP response sent
    world,           \* the surroundings, fixed for the run
    call             \* a direct call of get_page under test, or NoCall

vars == <<scraper_status, job_history, status_lock, pc, local, response, world, call>>

\* No call of get_page is under test.
NoCall == [kind |-> "none"]

\* The locals of a thread that has not run yet.  escaped (an exception has
\* left the inner handlers for the outer one) and appended (the records this
\* thread has appended) are history variables, as is published (the progress
\* value this thread wrote last).  feeds is what this thread's generate_feeds
\* has written to the two feed files.
NoLocals ==
    [job_id |-> 0, config |-> [categories |-> <<>>, max_retries |-> DefaultRetries],
     processed_categories |-> 0, category |-> 0, errors |-> 0, warnings |-> 0,
     all_product_links |-> {}, product_links |-> {}, current_url |-> 0,
     unique_links |-> <<>>, i |-> 0,
     products |-> <<>>, unavailable_products |-> <<>>,
     feeds |-> NoFeeds,
     escaped |-> FALSE, appended |-> 0, published |-> 0]

Init ==
    /\ scraper_status = InitialStatus
    /\ job_history = <<>>
    /\ status_lock = 0
    /\ pc = [w \in Workers |-> "unborn"]
    /\ local = [w \in Workers |-> NoLocals]
    /\ response = "none"
    /\ world \in Worlds
    /\ call = NoCall

\* The request thread that serves GET /api/status.
Reader == MaxJobs + 1

\* A thread that is running: spawned and neither returned nor killed.
Live(w) == pc[w] \notin {"unborn", "done", "dead"}

\* ---------------------------------------------------------------- handlers

\* Whether the client sends a start request now: at any moment, or only when
\* no job is in flight.
ClientSends == world.client = "racing" \/ \A w \in Workers : ~Live(w)

\* POST /api/start.  The status is read without the lock; the new thread is
\* the first one not yet used, and no more than world.jobs are started.
StartScraper ==
    IF ~IsIdle(scraper_status.status)
    THEN /\ response' = "already running"
         /\ UNCHANGED <<scraper_status, job_history, status_lock, pc, local, world, call>>
    ELSE \E w \in 1..world.jobs, config \in Configs(world.categories) :
            /\ pc[w] = "unborn"
            /\ \A v \in Workers : v < w => pc[v] # "unborn"
            /\ pc' = [pc EXCEPT ![w] = "job_id"]
            /\ local' = [local EXCEPT ![w].config = config]
            /\ response' = "started"
            /\ UNCHANGED <<scraper_status, job_history, status_lock, world, call>>

\* GET /api/status enters `with status_lock`.
GetStatus ==
    /\ status_lock = 0
    /\ status_lock' = Reader
    /\ UNCHANGED <<scraper_status, job_history, pc, local, response, world, call>>

\* return jsonify(scraper_status): the snapshot is taken, the lock released.
ReturnStatus ==
    /\ status_lock = Reader
    /\ status_lock' = 0
    /\ UNCHANGED <<scraper_status, job_history, pc, local, response, world, call>>

\* GET /api/history: job_history is read without the lock and returned.
GetHistory ==
    UNCHANGED <<scraper_status, job_history, status_lock, pc, local, response, world, call>>

\* ------------------------------------------------------------ scraper_thread

\* The places where the thread enters `with status_lock`.
LockPcs ==
    {"set_running", "total_pages", "cat_status", "cat_progress", "dedupe",
     "prod_status", "prod_progress", "count_unavailable", "count_available",
     "prod_time", "gen_status", "feed_completed", "feed_failed",
     "final_status", "append_completed", "fail_status", "append_failed"}

\* The places where the thread is blocked in a fetch, a sleep or a file write.
SuspensionPcs == {"crawl", "prod_fetch", "prod_sleep", "gen_feeds"}

\* status_lock.acquire() on entering a with block.
Acquire(w) ==
    /\ pc[w] \in LockPcs
    /\ status_lock = 0
    /\ status_lock' = w
    /\ UNCHANGED <<scraper_status, job_history, pc, local, response, world, call>>

\* update_scraper_status(d) that returns without releasing the lock.
UpdateKeepingLock(w, d) ==
    /\ status_lock = w
    /\ scraper_status' = DictUpdate(scraper_status, d)
    /\ status_lock' = w

\* update_scraper_status(d) once the lock is held, then the release.
Update(w, d) ==
    /\ status_lock = w
    /\ scraper_status' = DictUpdate(scraper_status, d)
    /\ status_lock' = 0

\* The category loop leaving out the last category of the list.
AfterCategorySkipLast(config, done) ==
    IF done < Len(config.categories) - 1 THEN "cat_status" ELSE "dedupe"

\* The thread's next place once `done` categories of its list are over.
AfterCategory(config, done) ==
    IF done < Len(config.categories) THEN "cat_status" ELSE "dedupe"

\* The thread's next place once `done` unique links are over.
AfterProduct(unique_links, done) ==
    IF done < Len(unique_links) THEN "prod_status" ELSE "gen_status"

\* Whether a fault of the surroundings is possible in this world.
Faults == IF world.faults THEN BOOLEAN ELSE {FALSE}

\* job_id = f"job-...-{len(job_history) + 1}": job_history is read without
\* the lock.
ComputeJobId(w) ==
    /\ pc[w] = "job_id"
    /\ local' = [local EXCEPT ![w].job_id = Len(job_history) + 1]
    /\ pc' = [pc EXCEPT ![w] = "set_running"]
    /\ UNCHANGED <<scraper_status, job_history, status_lock, response, world, call>>

\* update_scraper_status({"status": "Running", ...}).
SetRunning(w) ==
    /\ pc[w] = "set_running"
    /\ Update(w, [status |-> "Running", start_time |-> "set",
                  job_id |-> local[w].job_id, progress |-> 0,
                  feed_status |-> "Processing"])
    /\ pc' = [pc EXCEPT ![w] = "configure"]
    /\ local' = [local EXCEPT ![w].published = 0]
    /\ UNCHANGED <<job_history, response, world, call>>

\* The set-up before the try block: config["base_url"], config["user_agent"],
\* config["categories"], JewelryScraper(...), len(config["categories"]).  A
\* saved configuration that lacks a key or is no dict raises here, and the
\* exception ends the thread.
Configure(w) ==
    /\ pc[w] = "configure"
    /\ \E raised \in Faults :
          pc' = [pc EXCEPT ![w] = IF raised THEN "dead" ELSE "total_pages"]
    /\ UNCHANGED <<scraper_status, job_history, status_lock, local, response, world, call>>

\* all_product_links = []; update_scraper_status({"total_pages": 0}).
ResetTotalPages(w) ==
    /\ pc[w] = "total_pages"
    /\ Update(w, [total_pages |-> 0])
    /\ pc' = [pc EXCEPT ![w] = AfterCategory(local[w].config, 0)]
    /\ UNCHANGED <<job_history, local, response, world, call>>

\* update_scraper_status({"status": f"Scraping category: {category_url}"}),
\* then scrape_category starts at the category's first page.
CategoryStatus(w) ==
    /\ pc[w] = "cat_status"
    /\ Update(w, [status |-> "Scraping category"])
    /\ local' = [local EXCEPT
          ![w].current_url = FullUrl(local[w].config.categories[local[w].category + 1]),
          ![w].product_links = {}]
    /\ pc' = [pc EXCEPT ![w] = "crawl"]
    /\ UNCHANGED <<job_history, response, world, call>>

\* One iteration of the while loop of scrape_category: get_page, then
\* extract_product_links and get_next_page_url on what the site served.  A
\* listing anchor without href makes extract_product_links raise.  next_url
\* is 0 when get_next_page_url returns None.
CrawlPage(w) ==
    /\ pc[w] = "crawl"
    /\ \E html \in Bodies(local[w].config) :
          IF html = None
          THEN /\ local' = local
               /\ pc' = [pc EXCEPT ![w] = "cat_done"]
          ELSE \E links \in SUBSET world.links, next_url \in ListingPages \cup {0},
                  raised \in Faults :
                  IF raised
                  THEN /\ local' = local
                       /\ pc' = [pc EXCEPT ![w] = "cat_except"]
                  ELSE IF next_url # 0 /\ next_url # local[w].current_url
                  THEN /\ local' = [local EXCEPT
                             ![w].product_links = @ \cup links,
                             ![w].current_url = next_url]
                       /\ pc' = pc
                  ELSE /\ local' = [local EXCEPT
                             ![w].product_links = @ \cup links]
                       /\ pc' = [pc EXCEPT ![w] = "cat_done"]
    /\ UNCHANGED <<scraper_status, job_history, status_lock, response, world, call>>

\* scrape_category has returned, its locals are gone.
\* all_product_links.extend(category_links); processed_categories += 1.  The
\* arguments of the update that follows read scraper_status["pages_crawled"]
\* and ["total_pages"] before update_scraper_status takes the lock; they are
\* written back as read.
CategoryDone(w) ==
    /\ pc[w] = "cat_done"
    /\ local' = [local EXCEPT
          ![w].all_product_links = @ \cup local[w].product_links,
          ![w].processed_categories = @ + 1,
          ![w].product_links = {},
          ![w].current_url = 0]
    /\ pc' = [pc EXCEPT ![w] = "cat_progress"]
    /\ UNCHANGED <<scraper_status, job_history, status_lock, response, world, call>>

\* update_scraper_status({"progress": progress, ...}), then the next category.
PublishCategoryProgress(w) ==
    /\ pc[w] = "cat_progress"
    /\ Update(w, [progress |-> CategoryProgress(local[w].processed_categories,
                                                Len(local[w].config.categories))])
    /\ local' = [local EXCEPT
          ![w].category = @ + 1,
          ![w].published = CategoryProgress(local[w].processed_categories,
                                            Len(local[w].config.categories))]
    /\ pc' = [pc EXCEPT ![w] = AfterCategory(local[w].config, local[w].category + 1)]
    /\ UNCHANGED <<job_history, response, world, call>>

\* except Exception of the category loop: issues["errors"] += 1, then print.
\* A print that raises (the message cannot be encoded for stdout) leaves the
\* inner handler for the outer one.
CategoryError(w) ==
    /\ pc[w] = "cat_except"
    /\ \E raised \in Faults :
          /\ local' = [local EXCEPT ![w].errors = @ + 1, ![w].category = @ + 1,
                                     ![w].product_links = {}, ![w].current_url = 0,
                                     ![w].escaped = raised]
          /\ pc' = [pc EXCEPT ![w] =
                       IF raised THEN "fail_status"
                       ELSE AfterCategory(local[w].config, local[w].category + 1)]
    /\ UNCHANGED <<scraper_status, job_history, status_lock, response, world, call>>

\* unique_links = list(set(all_product_links)) and the update that follows.
Dedupe(w) ==
    /\ pc[w] = "dedupe"
    /\ \E unique_links \in Orders(local[w].all_product_links) :
          /\ Update(w, [status |-> "Processing products",
                        total_products |-> Len(unique_links)])
          /\ local' = [local EXCEPT ![w].unique_links = unique_links]
          /\ pc' = [pc EXCEPT ![w] = AfterProduct(unique_links, 0)]
    /\ UNCHANGED <<job_history, response, world, call>>

\* update_scraper_status({"status": f"Processing product {i+1}/{n}", ...}).
ProductStatus(w) ==
    /\ pc[w] = "prod_status"
    /\ Update(w, [status |-> "Processing product",
                  products_processed |-> local[w].i + 1])
    /\ pc' = [pc EXCEPT ![w] = "prod_progress"]
    /\ UNCHANGED <<job_history, local, response, world, call>>

\* update_scraper_status({"progress": product_progress}).
PublishProductProgress(w) ==
    /\ pc[w] = "prod_progress"
    /\ Update(w, [progress |-> ProductProgress(local[w].i, Len(local[w].unique_links))])
    /\ local' = [local EXCEPT
          ![w].published = ProductProgress(local[w].i, Len(local[w].unique_links))]
    /\ pc' = [pc EXCEPT ![w] = "prod_fetch"]
    /\ UNCHANGED <<job_history, response, world, call>>

\* html = scraper.get_page(link); parse_product_page; the append to one of
\* the two lists of the scraper.
ProcessProduct(w) ==
    /\ pc[w] = "prod_fetch"
    /\ \E html \in Bodies(local[w].config) :
          IF html = None
          THEN /\ local' = local
               /\ pc' = [pc EXCEPT ![w] = "prod_time"]
          ELSE \E page \in [title : world.elems, sku : world.elems, stock : world.stocks] :
                  LET product == ParseProductPage(page, local[w].unique_links[local[w].i + 1])
                  IN  IF product = NoProduct
                      THEN /\ local' = local
                           /\ pc' = [pc EXCEPT ![w] = "prod_time"]
                      ELSE IF IsUnavailable(product)
                      THEN /\ local' = [local EXCEPT
                                 ![w].unavailable_products = Append(@, product)]
                           /\ pc' = [pc EXCEPT ![w] = "count_unavailable"]
                      ELSE /\ local' = [local EXCEPT
                                 ![w].products = Append(@, product)]
                           /\ pc' = [pc EXCEPT ![w] = "count_available"]
    /\ UNCHANGED <<scraper_status, job_history, status_lock, response, world, call>>

\* update_scraper_status({"unavailable_products": len(...)}).
CountUnavailable(w) ==
    /\ pc[w] = "count_unavailable"
    /\ Update(w, [unavailable_products |-> Len(local[w].unavailable_products)])
    /\ pc' = [pc EXCEPT ![w] = "prod_time"]
    /\ UNCHANGED <<job_history, local, response, world, call>>

\* update_scraper_status({"available_products": len(scraper.products)}).
CountAvailable(w) ==
    /\ pc[w] = "count_available"
    /\ Update(w, [available_products |-> Len(local[w].products)])
    /\ pc' = [pc EXCEPT ![w] = "prod_time"]
    /\ UNCHANGED <<job_history, local, response, world, call>>

\* update_scraper_status({"time_elapsed": ...}).
ProductTime(w) ==
    /\ pc[w] = "prod_time"
    /\ Update(w, [time_elapsed |-> "elapsed"])
    /\ pc' = [pc EXCEPT ![w] = "prod_sleep"]
    /\ UNCHANGED <<job_history, local, response, world, call>>

\* The pause that ends an iteration.  Every SlowEvery-th item evaluates
\* float(config["request_delay"]), which raises on a missing or non-numeric
\* value.
ProductSleep(w) ==
    /\ pc[w] = "prod_sleep"
    /\ \E raised \in Faults :
          IF raised /\ local[w].i % SlowEvery = 0
          THEN /\ pc' = [pc EXCEPT ![w] = "prod_except"]
               /\ local' = local
          ELSE /\ pc' = [pc EXCEPT ![w] = AfterProduct(local[w].unique_links, local[w].i + 1)]
               /\ local' = [local EXCEPT ![w].i = @ + 1]
    /\ UNCHANGED <<scraper_status, job_history, status_lock, response, world, call>>

\* except Exception of the product loop: issues["warnings"] += 1, then print.
ProductError(w) ==
    /\ pc[w] = "prod_except"
    /\ \E raised \in Faults :
          /\ local' = [local EXCEPT ![w].warnings = @ + 1, ![w].i = @ + 1,
                                     ![w].escaped = raised]
          /\ pc' = [pc EXCEPT ![w] =
                       IF raised THEN "fail_status"
                       ELSE AfterProduct(local[w].unique_links, local[w].i + 1)]
    /\ UNCHANGED <<scraper_status, job_history, status_lock, response, world, call>>

\* update_scraper_status({"status": "Generating feeds", "progress": 90}).
GenStatus(w) ==
    /\ pc[w] = "gen_status"
    /\ Update(w, [status |-> "Generating feeds", progress |-> FeedProgress])
    /\ local' = [local EXCEPT ![w].published = FeedProgress]
    /\ pc' = [pc EXCEPT ![w] = "gen_feeds"]
    /\ UNCHANGED <<job_history, response, world, call>>

\* scraper.generate_feeds(): the available feed is mapped and written, then
\* the unavailable one; or one of the two to_excel calls raises and the
\* handler counts an error.
GenerateFeeds(w) ==
    /\ pc[w] = "gen_feeds"
    /\ \E raised \in Faults :
          IF raised
          THEN \E first_written \in BOOLEAN :
                  /\ local' = [local EXCEPT
                        ![w].errors = @ + 1,
                        ![w].feeds =
                            IF first_written
                            THEN [available |-> MapToAmazonFeed(local[w].products),
                                  unavailable |-> <<>>]
                            ELSE @]
                  /\ pc' = [pc EXCEPT ![w] = "feed_failed"]
          ELSE /\ local' = [local EXCEPT
                     ![w].feeds =
                         [available |-> MapToAmazonFeed(local[w].products),
                          unavailable |-> MapToAmazonFeed(local[w].unavailable_products)]]
               /\ pc' = [pc EXCEPT ![w] = "feed_completed"]
    /\ UNCHANGED <<scraper_status, job_history, status_lock, response, world, call>>

\* update_scraper_status({"feed_status": "Completed"}).
FeedCompleted(w) ==
    /\ pc[w] = "feed_completed"
    /\ Update(w, [feed_status |-> "Completed"])
    /\ pc' = [pc EXCEPT ![w] = "final_status"]
    /\ UNCHANGED <<job_history, local, response, world, call>>

\* update_scraper_status({"feed_status": "Failed"}) in the feed handler.
FeedFailed(w) ==
    /\ pc[w] = "feed_failed"
    /\ Update(w, [feed_status |-> "Failed"])
    /\ pc' = [pc EXCEPT ![w] = "feed_print"]
    /\ UNCHANGED <<job_history, local, response, world, call>>

\* print(f"Error generating feeds: ...") in the feed handler.
FeedPrint(w) ==
    /\ pc[w] = "feed_print"
    /\ \E raised \in Faults :
          /\ local' = [local EXCEPT ![w].escaped = raised]
          /\ pc' = [pc EXCEPT ![w] = IF raised THEN "fail_status" ELSE "final_status"]
    /\ UNCHANGED <<scraper_status, job_history, status_lock, response, world, call>>

\* update_scraper_status({"status": "Idle", "progress": 100, ...}).
FinalStatus(w) ==
    /\ pc[w] = "final_status"
    /\ Update(w, [status |-> "Idle", progress |-> DoneProgress,
                  time_elapsed |-> "elapsed"])
    /\ local' = [local EXCEPT ![w].published = DoneProgress]
    /\ pc' = [pc EXCEPT ![w] = "append_completed"]
    /\ UNCHANGED <<job_history, response, world, call>>

\* The record of a job that ran to its end, marked Failed when it counted an
\* error.
CompletedUnlessErrors(l) ==
    [job_id |-> l.job_id, status |-> IF l.errors > 0 THEN "Failed" ELSE "Completed",
     products |-> Len(l.products), errors |-> l.errors, warnings |-> l.warnings]

\* The record of a completed job.  The total of the "products" text and the
\* times are left out.
CompletedRecord(l) ==
    [job_id |-> l.job_id, status |-> "Completed", products |-> Len(l.products),
     errors |-> l.errors, warnings |-> l.warnings]

\* The outer handler recording the job as completed.
FailedAsCompleted(l) ==
    [job_id |-> l.job_id, status |-> "Completed", products |-> 0,
     errors |-> 1, warnings |-> 0]

\* The record of a failed job: "1 errors, 0 warnings" whatever was counted.
FailedRecord(l) ==
    [job_id |-> l.job_id, status |-> "Failed", products |-> 0,
     errors |-> 1, warnings |-> 0]

\* with status_lock: job_history.append({... "status": "Completed" ...}).
AppendCompleted(w) ==
    /\ pc[w] = "append_completed"
    /\ status_lock = w
    /\ job_history' = Append(job_history, CompletedRecord(local[w]))
    /\ status_lock' = 0
    /\ local' = [local EXCEPT ![w].appended = @ + 1]
    /\ pc' = [pc EXCEPT ![w] = "done"]
    /\ UNCHANGED <<scraper_status, response, world, call>>

\* The outer handler: update_scraper_status({"status": "Idle", "progress": 0,
\* "feed_status": "Failed"}).
FailStatus(w) ==
    /\ pc[w] = "fail_status"
    /\ Update(w, [status |-> "Idle", progress |-> 0, feed_status |-> "Failed"])
    /\ local' = [local EXCEPT ![w].published = 0]
    /\ pc' = [pc EXCEPT ![w] = "append_failed"]
    /\ UNCHANGED <<job_history, response, world, call>>

\* with status_lock: job_history.append({... "status": "Failed" ...}).
AppendFailed(w) ==
    /\ pc[w] = "append_failed"
    /\ status_lock = w
    /\ job_history' = Append(job_history, FailedRecord(local[w]))
    /\ status_lock' = 0
    /\ local' = [local EXCEPT ![w].appended = @ + 1]
    /\ pc' = [pc EXCEPT ![w] = "done"]
    /\ UNCHANGED <<scraper_status, response, world, call>>

\* One step of thread w.
Worker(w) ==
    \/ Acquire(w)
    \/ ComputeJobId(w)
    \/ SetRunning(w)
    \/ Configure(w)
    \/ ResetTotalPages(w)
    \/ CategoryStatus(w)
    \/ CrawlPage(w)
    \/ CategoryDone(w)
    \/ PublishCategoryProgress(w)
    \/ CategoryError(w)
    \/ Dedupe(w)
    \/ ProductStatus(w)
    \/ PublishProductProgress(w)
    \/ ProcessProduct(w)
    \/ CountUnavailable(w)
    \/ CountAvailable(w)
    \/ ProductTime(w)
    \/ ProductSleep(w)
    \/ ProductError(w)
    \/ GenStatus(w)
    \/ GenerateFeeds(w)
    \/ FeedCompleted(w)
    \/ FeedFailed(w)
    \/ FeedPrint(w)
    \/ FinalStatus(w)
    \/ AppendCompleted(w)
    \/ FailStatus(w)
    \/ AppendFailed(w)

Next ==
    \/ ClientSends /\ StartScraper
    \/ GetStatus
    \/ ReturnStatus
    \/ GetHistory
    \/ \E w \in Workers : Worker(w)

Spec == Init /\ [][Next]_vars

\* The operating system runs every thread that can run.
FairSpec == Spec /\ \A w \in Workers : WF_vars(Worker(w))

\* ------------------------------------------ get_page called on its own

\* The retries arguments and the request outcomes of the calls under test.
Attempts == IF MaxAttempts > DefaultRetries THEN MaxAttempts ELSE DefaultRetries
Calls ==
    [kind : {"pending"}, retries : 0..MaxAttempts,
     outcomes : [1..Attempts -> Outcomes], config : Configs(0)]

FetchInit ==
    /\ scraper_status = InitialStatus
    /\ job_history = <<>>
    /\ status_lock = 0
    /\ pc = [w \in Workers |-> "unborn"]
    /\ local = [w \in Workers |-> NoLocals]
    /\ response = "none"
    /\ world \in {x \in Worlds : x.jobs = 1}
    /\ call \in Calls

\* get_page(url, retries, delay) is called and returns.
CallGetPage ==
    /\ call.kind = "pending"
    /\ call' = [call EXCEPT !.kind = "get_page"] @@
                [result |-> GetPage(call.outcomes, call.retries)]
    /\ UNCHANGED <<scraper_status, job_history, status_lock, pc, local, response, world>>

\* A job started with call.config fetches a URL.
CallJobGetPage ==
    /\ call.kind = "pending"
    /\ call' = [call EXCEPT !.kind = "job"] @@
                [result |-> JobGetPage(call.config, call.outcomes)]
    /\ UNCHANGED <<scraper_status, job_history, status_lock, pc, local, response, world>>

FetchNext == CallGetPage \/ CallJobGetPage

FetchSpec == FetchInit /\ [][FetchNext]_vars

\* ------------------------- the pure steps of a job, called on their own

\* set(all_product_links): the elements of the list.
SetOfList(list) == {list[k] : k \in DOMAIN list}

\* The list kept as it is, repeats included.
KeepAllLinks(all_product_links) == {all_product_links}

\* unique_links = list(set(all_product_links)): the orders the set can be
\* listed in.
UniqueLinks(all_product_links) == Orders(SetOfList(all_product_links))

\* The lists all_product_links can be after the category loop: the links of
\* every page of every category in turn, repeats included.
LinkLists == UNION {[1..n -> Links] : n \in 0..MaxListLen}

\* The calls under test.
PureCalls ==
    [kind : {"dedupe"}, all_product_links : LinkLists]
        \cup [kind : {"parse"}, page : ProductPages, product_url : Links]
        \cup {c \in [kind : {"progress"}, done : 1..MaxTotal, total : 1..MaxTotal] :
                 c.done <= c.total}

PureInit ==
    /\ scraper_status = InitialStatus
    /\ job_history = <<>>
    /\ status_lock = 0
    /\ pc = [w \in Workers |-> "unborn"]
    /\ local = [w \in Workers |-> NoLocals]
    /\ response = "none"
    /\ world \in {x \in Worlds : x.jobs = 1}
    /\ call \in PureCalls

\* unique_links = list(set(all_product_links)), the total_products the thread
\* publishes, and the links the product loop then visits, in order.
CallDedupe ==
    /\ call.kind = "dedupe"
    /\ \E unique_links \in UniqueLinks(call.all_product_links) :
          call' = [kind |-> "deduped",
                   all_product_links |-> call.all_product_links,
                   total_products |-> Len(unique_links),
                   visited |-> [i \in 1..Len(unique_links) |-> unique_links[i]]]
    /\ UNCHANGED <<scraper_status, job_history, status_lock, pc, local, response, world>>

\* product = scraper.parse_product_page(html, link).
CallParseProductPage ==
    /\ call.kind = "parse"
    /\ call' = [kind |-> "parsed", page |-> call.page,
                product |-> ParseProductPage(call.page, call.product_url)]
    /\ UNCHANGED <<scraper_status, job_history, status_lock, pc, local, response, world>>

\* The progress the thread publishes once `done` of `total` categories are
\* processed, and the one it publishes for the product of index done - 1 of
\* `total` unique links.
CallProgress ==
    /\ call.kind = "progress"
    /\ call' = [kind |-> "progressed", done |-> call.done, total |-> call.total,
                progress |-> CategoryProgress(call.done, call.total),
                product_progress |-> ProductProgress(call.done - 1, call.total)]
    /\ UNCHANGED <<scraper_status, job_history, status_lock, pc, local, response, world>>

PureNext == CallDedupe \/ CallParseProductPage \/ CallProgress

PureSpec == PureInit /\ [][PureNext]_vars

\* ------------------------------------------------------------------ claims

\* The request thread of POST /api/start, for the lock's holder.
Starter == MaxJobs + 2

\* C1: at most one scraper_thread is running at any time.
C1_AtMostOneWorker == Cardinality({w \in Workers : Live(w)}) <= 1

\* C2: while the status field holds anything but "Idle", no step starts a
\* thread, and a start request is answered "already running" and changes
\* neither scraper_status nor job_history nor any thread.
C2_StartWhileRunningRejected ==
    [][scraper_status.status # "Idle" =>
          /\ \A w \in Workers : pc[w] = "unborn" => pc'[w] = "unborn"
          /\ response' # response =>
                /\ response' = "already running"
                /\ scraper_status' = scraper_status
                /\ job_history' = job_history
                /\ pc' = pc
                /\ local' = local]_vars

\* A start request has been rejected while a category was being scraped.
C2_Witness ==
    /\ response = "already running"
    /\ scraper_status.status = "Scraping category"
    /\ \E w \in Workers : pc[w] = "crawl"

\* C3: after a thread's first update, the progress field never decreases
\* until the next thread's first update.
C3_ProgressNeverDecreases ==
    [][\/ scraper_status'.progress >= scraper_status.progress
       \/ \E w \in Workers : pc[w] = "set_running" /\ pc'[w] = "configure"]_vars

\* C3, amended: the progress values one thread writes never decrease from
\* its first update on, except that the terminal update of the outer handler
\* resets the progress to 0; each value is written to scraper_status as
\* computed.
C3_WrittenProgressNeverDecreases ==
    [][\A w \in Workers :
          /\ \/ local'[w].published >= local[w].published
             \/ pc[w] = "fail_status" /\ pc'[w] = "append_failed" /\ local'[w].published = 0
          /\ (pc[w] \in {"set_running", "cat_progress", "prod_progress", "gen_status",
                          "final_status", "fail_status"} /\ pc'[w] # pc[w])
                => scraper_status'.progress = local'[w].published]_vars

\* A thread has written 15 for its first category, 30 for its second, 60 for
\* its first product, and the outer handler has then reset the progress to 0.
C3_Witness ==
    \E w \in Workers :
        /\ pc[w] = "append_failed"
        /\ local[w].processed_categories = 2
        /\ Len(local[w].unique_links) = 2
        /\ local[w].i = 1
        /\ local[w].published = 0
        /\ scraper_status.progress = 0

\* C4: every step that reads or writes scraper_status or job_history is taken
\* by the thread that holds status_lock.
C4_AllAccessUnderLock ==
    [][/\ \A w \in Workers :
             (\/ ComputeJobId(w)
              \/ CategoryDone(w)
              \/ pc[w] \in LockPcs /\ pc'[w] # pc[w]) => status_lock = w
       /\ response' # response => status_lock = Starter]_vars

\* C5: once every thread that was started has ended, the status is "Idle"
\* (nothing writes the status afterwards, so a state that is not Idle then
\* stays so for ever).
C5_EndedJobsLeaveIdle ==
    ((\E w \in Workers : pc[w] # "unborn") /\ (\A w \in Workers : ~Live(w)))
        => scraper_status.status = "Idle"

\* C6: the terminal update of a thread writes Idle, 0, Failed when an error
\* has escaped the inner handlers and Idle, 100 otherwise, and the record the
\* thread appends carries its job id and the outcome Failed in the first
\* case, Completed in the second.
C6_TerminalStatusMatchesOutcome ==
    [][\A w \in Workers :
          /\ (pc[w] \in {"final_status", "fail_status"} /\ pc'[w] # pc[w]) =>
                /\ scraper_status'.status = "Idle"
                /\ scraper_status'.progress = (IF local[w].escaped THEN 0 ELSE DoneProgress)
                /\ local[w].escaped => scraper_status'.feed_status = "Failed"
          /\ (pc[w] # "done" /\ pc'[w] = "done") =>
                /\ Len(job_history') = Len(job_history) + 1
                /\ job_history'[Len(job_history')].job_id = local[w].job_id
                /\ job_history'[Len(job_history')].status =
                       (IF local[w].escaped THEN "Failed" ELSE "Completed")
          /\ (local[w].escaped /\ pc[w] # "done") => pc'[w] # "dead"
          /\ (pc[w] \in {"cat_except", "prod_except", "feed_print"} /\ pc'[w] = "fail_status")
                => local'[w].escaped]_vars

\* One job has failed and a later one has completed although it counted an
\* error.
C6_Witness ==
    /\ \E k \in 1..Len(job_history) : job_history[k].status = "Failed"
    /\ \E k \in 1..Len(job_history) :
          job_history[k].status = "Completed" /\ job_history[k].errors > 0
    /\ \E w \in Workers : pc[w] = "done" /\ local[w].escaped
    /\ \E w \in Workers : pc[w] = "done" /\ ~local[w].escaped /\ local[w].errors > 0
    /\ scraper_status.status = "Idle"

\* C7: a thread that has ended has appended exactly one record.
C7_OneRecordPerJob ==
    \A w \in Workers : pc[w] \in {"done", "dead"} => local[w].appended = 1

\* C8: a thread that is inside scrape_category eventually leaves it.
C8_CrawlTerminates ==
    \A w \in Workers : (pc[w] = "crawl") ~> (pc[w] # "crawl")

\* C9: get_page(url, retries) sends at most `retries` requests; when one of
\* the first `retries` requests succeeds it returns the body after the first
\* such request and sends no more; otherwise it returns None after exactly
\* `retries` requests.
C9_GetPageBoundedRetries ==
    call.kind = "get_page" =>
        LET oks == {k \in 1..call.retries : call.outcomes[k] = "ok"}
        IN  /\ call.result.sent <= call.retries
            /\ oks # {} =>
                  /\ call.result.body = "html"
                  /\ call.result.sent \in oks
                  /\ \A k \in oks : call.result.sent <= k
            /\ oks = {} =>
                  /\ call.result.body = None
                  /\ call.result.sent = call.retries

\* get_page has returned the body of its second request, the first having
\* failed, without sending a third.
C9_Witness ==
    /\ call.kind = "get_page"
    /\ call.retries = DefaultRetries
    /\ call.outcomes[1] # "ok"
    /\ call.outcomes[2] = "ok"
    /\ call.result = [body |-> "html", sent |-> 2]

\* C10: a job sends no more requests for a URL than the max_retries of its
\* configuration.
C10_RequestsWithinConfigured ==
    call.kind = "job" => call.result.sent <= call.config.max_retries

\* C11: when a thread is about to append its Completed record, its warning
\* count equals the number of unique links it skipped, that is, the links
\* that gave no product to either list of its scraper.
C11_WarningsCountSkips ==
    \A w \in Workers :
        pc[w] = "append_completed" =>
            local[w].warnings =
                Len(local[w].unique_links) - Len(local[w].products)
                    - Len(local[w].unavailable_products)

\* C12: the handler of the category loop, when it completes, adds exactly one
\* to the error count, keeps the links gathered so far and goes on with the
\* next category of the configured list, or with the product phase after the
\* last one; the crawl itself counts nothing; categories are crawled in list
\* order; a thread enters the outer handler only with an escaped error, and
\* otherwise appends a Completed record that carries its error count.
C12_CategoryErrorContinues ==
    [][\A w \in Workers :
          /\ (pc[w] = "cat_except" /\ pc'[w] # pc[w] /\ ~local'[w].escaped) =>
                /\ local'[w].errors = local[w].errors + 1
                /\ local'[w].warnings = local[w].warnings
                /\ local'[w].all_product_links = local[w].all_product_links
                /\ local'[w].processed_categories = local[w].processed_categories
                /\ local'[w].category = local[w].category + 1
                /\ pc'[w] = (IF local[w].category + 1 < Len(local[w].config.categories)
                             THEN "cat_status" ELSE "dedupe")
          /\ (pc[w] \in {"cat_status", "crawl", "cat_done", "cat_progress"}) =>
                local'[w].errors = local[w].errors
          /\ (pc[w] = "cat_status" /\ pc'[w] = "crawl") =>
                local'[w].current_url = local[w].config.categories[local[w].category + 1]
          /\ (pc[w] # "fail_status" /\ pc'[w] = "fail_status") => local'[w].escaped
          /\ (pc[w] = "append_completed" /\ pc'[w] = "done") =>
                /\ ~local[w].escaped
                /\ job_history'[Len(job_history')].status = "Completed"
                /\ job_history'[Len(job_history')].errors = local[w].errors]_vars

\* A job of two categories has ended Completed with the links of one
\* category, the crawl of the other having raised: one error counted, none
\* from the feeds.
C12_Witness ==
    \E w \in Workers :
        /\ pc[w] = "done"
        /\ Len(local[w].config.categories) = 2
        /\ local[w].category = 2
        /\ local[w].processed_categories = 1
        /\ local[w].errors = 1
        /\ local[w].all_product_links # {}
        /\ Len(local[w].unique_links) = Cardinality(local[w].all_product_links)
        /\ scraper_status.feed_status = "Completed"
        /\ Len(job_history) = 1
        /\ job_history[1].status = "Completed"
        /\ job_history[1].errors = 1

\* C13: a feed generation that fails adds one to the error count and the
\* handler writes feed_status Failed; one that succeeds counts nothing and
\* feed_status Completed is written; either way the thread goes on to the
\* final update, which writes Idle and 100 and leaves feed_status as it is,
\* and then appends a Completed record carrying its error count.
C13_FeedFailureStillCompletes ==
    [][\A w \in Workers :
          /\ (pc[w] = "gen_feeds" /\ pc'[w] = "feed_failed") =>
                local'[w].errors = local[w].errors + 1
          /\ (pc[w] = "gen_feeds" /\ pc'[w] # pc[w]) =>
                pc'[w] \in {"feed_failed", "feed_completed"}
          /\ (pc[w] = "gen_feeds" /\ pc'[w] = "feed_completed") =>
                local'[w].errors = local[w].errors
          /\ (pc[w] = "feed_failed" /\ pc'[w] # pc[w]) =>
                /\ scraper_status'.feed_status = "Failed"
                /\ pc'[w] = "feed_print"
          /\ (pc[w] = "feed_print" /\ pc'[w] # pc[w] /\ ~local'[w].escaped) =>
                pc'[w] = "final_status"
          /\ (pc[w] = "feed_completed" /\ pc'[w] # pc[w]) =>
                /\ scraper_status'.feed_status = "Completed"
                /\ pc'[w] = "final_status"
          /\ (pc[w] = "final_status" /\ pc'[w] # pc[w]) =>
                /\ scraper_status'.status = "Idle"
                /\ scraper_status'.progress = DoneProgress
                /\ scraper_status'.feed_status = scraper_status.feed_status
                /\ pc'[w] = "append_completed"
          /\ (pc[w] = "append_completed" /\ pc'[w] # pc[w]) =>
                /\ pc'[w] = "done"
                /\ job_history' = Append(job_history,
                       [job_id |-> local[w].job_id, status |-> "Completed",
                        products |-> Len(local[w].products),
                        errors |-> local[w].errors, warnings |-> local[w].warnings])]_vars

\* A job whose only error was the feed generation has ended: Idle, 100,
\* feed_status Failed, and a Completed record with one error.
C13_Witness ==
    \E w \in Workers :
        /\ pc[w] = "done"
        /\ ~local[w].escaped
        /\ local[w].errors = 1
        /\ local[w].processed_categories = Len(local[w].config.categories)
        /\ scraper_status.status = "Idle"
        /\ scraper_status.progress = DoneProgress
        /\ scraper_status.feed_status = "Failed"
        /\ Len(job_history) = 1
        /\ job_history[1].status = "Completed"
        /\ job_history[1].errors = 1

\* C14: the product loop visits every distinct link of all_product_links
\* exactly once and no other link, and total_products is the number of
\* distinct links, whatever the repeats in the list and their order.
C14_DistinctLinksOnce ==
    call.kind = "deduped" =>
        LET distinct == SetOfList(call.all_product_links)
        IN  /\ \A u \in distinct :
                  Cardinality({i \in DOMAIN call.visited : call.visited[i] = u}) = 1
            /\ \A i \in DOMAIN call.visited : call.visited[i] \in distinct
            /\ call.total_products = Cardinality(distinct)

\* A list of four links in which two distinct links repeat has been
\* deduplicated to two visits.
C14_Witness ==
    /\ call.kind = "deduped"
    /\ Len(call.all_product_links) = 4
    /\ call.all_product_links[1] = call.all_product_links[3]
    /\ call.all_product_links[2] = call.all_product_links[4]
    /\ call.all_product_links[1] # call.all_product_links[2]
    /\ call.total_products = 2
    /\ Len(call.visited) = 2

\* C15: after every step, scraper.products holds only products whose stock
\* status is Available and scraper.unavailable_products only products that
\* are Out of Stock, In Production or Removed; no link has a product in both
\* lists; the step that extracts a product appends it to exactly one of the
\* lists; and no step removes or changes a product already in a list.
C15_RoutedByStockStatus ==
    [][\A w \in Workers :
          LET before == local[w]
              after == local'[w]
          IN  /\ \A k \in DOMAIN after.products :
                    after.products[k].stock_status = "Available"
              /\ \A k \in DOMAIN after.unavailable_products :
                    after.unavailable_products[k].stock_status
                        \in {"Out of Stock", "In Production", "Removed"}
              /\ \A k \in DOMAIN after.products, j \in DOMAIN after.unavailable_products :
                    after.products[k].url # after.unavailable_products[j].url
              /\ Len(after.products) >= Len(before.products)
              /\ SubSeq(after.products, 1, Len(before.products)) = before.products
              /\ Len(after.unavailable_products) >= Len(before.unavailable_products)
              /\ SubSeq(after.unavailable_products, 1, Len(before.unavailable_products))
                    = before.unavailable_products
              /\ (pc[w] = "prod_fetch" /\ pc'[w] \in {"count_available", "count_unavailable"}) =>
                    /\ Len(after.products) + Len(after.unavailable_products)
                          = Len(before.products) + Len(before.unavailable_products) + 1
                    /\ \/ /\ Len(after.products) = Len(before.products) + 1
                          /\ after.products[Len(after.products)].url
                                = before.unique_links[before.i + 1]
                       \/ /\ Len(after.unavailable_products)
                                = Len(before.unavailable_products) + 1
                          /\ after.unavailable_products[Len(after.unavailable_products)].url
                                = before.unique_links[before.i + 1]
              /\ (pc[w] = "prod_fetch" /\ pc'[w] \notin {"count_available", "count_unavailable"}) =>
                    /\ after.products = before.products
                    /\ after.unavailable_products = before.unavailable_products]_vars

\* A thread has routed one product to each list, the unavailable one being
\* Removed.
C15_Witness ==
    \E w \in Workers :
        /\ Len(local[w].products) = 1
        /\ Len(local[w].unavailable_products) = 1
        /\ local[w].unavailable_products[1].stock_status = "Removed"
        /\ pc[w] = "gen_status"

\* C16: no product in scraper.products or scraper.unavailable_products has
\* an absent or empty title or an absent or empty sku.
C16_NoProductWithoutTitleOrSku ==
    \A w \in Workers :
        /\ \A k \in DOMAIN local[w].products :
              /\ local[w].products[k].title \notin {None, ""}
              /\ local[w].products[k].sku \notin {None, ""}
        /\ \A k \in DOMAIN local[w].unavailable_products :
              /\ local[w].unavailable_products[k].title \notin {None, ""}
              /\ local[w].unavailable_products[k].sku \notin {None, ""}

\* C17: the stock status of an extracted product is Available when the page
\* has no stock element, and otherwise follows from the stock text, ignoring
\* case, by the first rule that matches: "out of stock" gives Out of Stock;
\* "production" or "manufacturing" gives In Production; "discontinued" or
\* "removed" gives Removed; any other text gives Available.
C17_StockStatusRules ==
    (call.kind = "parsed" /\ call.product # NoProduct) =>
        LET text == call.page.stock
            Contains(keyword) == \E m \in text : LowerCase(m) = keyword
        IN  call.product.stock_status =
                (CASE text = NoElem -> "Available"
                   [] text # NoElem /\ Contains("out of stock") -> "Out of Stock"
                   [] text # NoElem /\ ~Contains("out of stock")
                        /\ (Contains("production") \/ Contains("manufacturing"))
                        -> "In Production"
                   [] text # NoElem /\ ~Contains("out of stock")
                        /\ ~(Contains("production") \/ Contains("manufacturing"))
                        /\ (Contains("discontinued") \/ Contains("removed"))
                        -> "Removed"
                   [] OTHER -> "Available")

\* A page whose stock text says "REMOVED" and "PRODUCTION", in capitals, has
\* given a product In Production.
C17_Witness ==
    /\ call.kind = "parsed"
    /\ call.page.stock = {"REMOVED", "PRODUCTION"}
    /\ call.product # NoProduct
    /\ call.product.stock_status = "In Production"

\* C18: a thread that is blocked in a fetch, a delay or the writing of the
\* feeds does not hold status_lock; a thread holds it only at an update of
\* scraper_status or an append to job_history.
C18_NoLockWhileSuspended ==
    \A w \in Workers :
        /\ pc[w] \in SuspensionPcs => status_lock # w
        /\ status_lock = w => pc[w] \in LockPcs

\* GET /api/status holds the lock while a thread is blocked in the fetch of
\* a product page.
C18_Witness ==
    /\ status_lock = Reader
    /\ \E w \in Workers : pc[w] = "prod_fetch"

\* C19: every row generate_feeds has written carries the quantity 0 when its
\* product's stock status is not Available and the fixed positive quantity
\* when it is; every row of the unavailable feed has quantity 0 and every
\* row of the available feed a positive quantity; a generation that
\* succeeded has written one row per product of either list.
C19_FeedQuantities ==
    \A w \in Workers :
        LET feeds == local[w].feeds
        IN  /\ Len(feeds.available) <= Len(local[w].products)
            /\ \A k \in DOMAIN feeds.available :
                  /\ feeds.available[k].quantity =
                        (IF local[w].products[k].stock_status = "Available"
                         THEN AvailableQuantity ELSE 0)
                  /\ feeds.available[k].quantity > 0
            /\ Len(feeds.unavailable) <= Len(local[w].unavailable_products)
            /\ \A k \in DOMAIN feeds.unavailable :
                  /\ feeds.unavailable[k].quantity =
                        (IF local[w].unavailable_products[k].stock_status = "Available"
                         THEN AvailableQuantity ELSE 0)
                  /\ feeds.unavailable[k].quantity = 0
            /\ pc[w] = "feed_completed" =>
                  /\ Len(feeds.available) = Len(local[w].products)
                  /\ Len(feeds.unavailable) = Len(local[w].unavailable_products)

\* Both feeds are written: a product In Production stands in the
\* unavailable feed with quantity 0, an Available one in the available feed
\* with the fixed quantity.
C19_Witness ==
    \E w \in Workers :
        /\ pc[w] = "feed_completed"
        /\ Len(local[w].feeds.available) = 1
        /\ Len(local[w].feeds.unavailable) = 1
        /\ local[w].unavailable_products[1].stock_status = "In Production"
        /\ local[w].feeds.unavailable[1].quantity = 0
        /\ local[w].feeds.available[1].quantity = AvailableQuantity

\* C20: the progress published after the k-th of n categories is k / n * 30
\* rounded to the nearest integer, and the progress published for the i-th
\* of m unique products is 30 plus i / m * 60 rounded to the nearest integer
\* (a value half-way between two integers may go either way).
C20_ProgressRounds ==
    call.kind = "progressed" =>
        LET k == call.done
            n == call.total
            Abs(x) == IF x < 0 THEN -x ELSE x
        IN  /\ 2 * Abs(call.progress * n - k * 30) <= n
            /\ 2 * Abs((call.product_progress - 30) * n - k * 60) <= n

\* C21: the progress field is always an integer of 0..100; it is within
\* 0..30 while a thread is in the category loop, within 30..90 while a thread
\* is in the product loop, and 90 once a thread has announced the feed phase
\* and generates the feeds.
C21_ProgressRanges ==
    LET CategoryPhase == {"cat_status", "crawl", "cat_done", "cat_progress", "cat_except"}
        ProductPhase == {"prod_status", "prod_progress", "prod_fetch", "count_unavailable",
                         "count_available", "prod_time", "prod_sleep", "prod_except"}
    IN  /\ scraper_status.progress \in 0..100
        /\ \A w \in Workers :
              /\ pc[w] \in CategoryPhase => scraper_status.progress \in 0..CategoryShare
              /\ pc[w] \in ProductPhase =>
                    scraper_status.progress \in ProductBase..(ProductBase + ProductShare)
              /\ pc[w] = "gen_feeds" => scraper_status.progress = FeedProgress

\* C22: no two records of the job history carry the same job id (the jobs of
\* the model start within one clock hour, so the id is its trailing number),
\* whatever the interleaving of a finishing thread with the next start.
C22_UniqueJobIds ==
    \A a, b \in DOMAIN job_history :
        a # b => job_history[a].job_id # job_history[b].job_id

\* C23: a status read never returns Idle while a thread that has published
\* its terminal Idle status has not yet appended its record to the history.
C23_IdleImpliesRecorded ==
    (status_lock = Reader /\ scraper_status.status = "Idle") =>
        \A w \in Workers : pc[w] \notin {"append_completed", "append_failed"}

\* C24: in every state the status shows no more processed products than
\* total products, over consecutive jobs too.
C24_ProcessedWithinTotal ==
    scraper_status.products_processed <= scraper_status.total_products

\* C25: when a job has completed and is about to be recorded, the available
\* and unavailable counts of the status are the numbers of products this job
\* put in its available and its unavailable collection.
C25_CountsMatchRouted ==
    \A w \in Workers :
        pc[w] = "append_completed" =>
            /\ scraper_status.available_products = Len(local[w].products)
            /\ scraper_status.unavailable_products = Len(local[w].unavailable_products)
====
